---- MODULE Spec2Model ----
(***************************************************************************)
(* Distance Vector routing simulation (src/script.py, class Network).      *)
(*                                                                         *)
(* The state is the Network object (nodes, graph, routing_tables).  Every  *)
(* method is one action.  update_routing() mutates the tables in place     *)
(* while it scans them, so the action computes the scan triple by triple   *)
(* (Round) and records every assignment of line 60 in the history variable *)
(* writes: the states in the middle of a round are the tables of the       *)
(* call's start with a prefix of these assignments applied.  Python dicts  *)
(* keep insertion order, and the loops iterate in that order: graph[n] is  *)
(* therefore a sequence of (neighbour, cost) items.                        *)
(***************************************************************************)
EXTENDS Integers, Sequences, FiniteSets, TLC

VARIABLES
  nodes,           \* self.nodes: the list handed to the constructor
  graph,           \* self.graph: node -> insertion-ordered dict neighbour -> cost
  routing_tables,  \* self.routing_tables: node -> destination -> (cost, next hop)
  initialized,     \* history: initialize_tables() has been called
  updated,         \* what the last call of update_routing() returned
  pre,             \* history: routing_tables when the last call began
  writes,          \* history: the assignments of line 60 made by the last call,
                   \* in order: (node, dest, entry replaced, entry written)
  scanned,         \* history: executions of the loop body (lines 58-61) in the
                   \* last call
  rounds,          \* history: calls returned, up to the first that returned False
  converged,       \* history: some call has returned False
  post,            \* history: a call made after convergence has returned
  script,          \* next add_link of the module-level script (0: other driver)
  calls,           \* history (LinkSpec): the add_link calls made, in order
  last_call,       \* history (StrangerSpec): the arguments of the add_link call
                   \* that named a stranger
  graph_before,    \* history (StrangerSpec): self.graph when that call began
  raised,          \* history (StrangerSpec): that call raised KeyError
  early,           \* history (ApiSpec): update_routing() has been called before
                   \* initialize_tables()
  again            \* history (ApiSpec): initialize_tables() has been called again
                   \* after a round

\* the history of the add_link driver and of the out-of-order driver
link_vars == <<calls, last_call, graph_before, raised>>

api_vars == <<early, again>>

vars == <<nodes, graph, routing_tables, initialized, updated, pre, writes,
          scanned, rounds, converged, post, script, link_vars, api_vars>>

(* ---------------------------- bounds ----------------------------------- *)
\* largest node list handed to the constructor by the general driver
MaxNodes == 3
\* largest link cost handed to add_link by the general driver
MaxCost == 1
\* largest number of distinct links the general driver registers
MaxLinks == 3
\* largest number of add_link calls the recording driver makes
MaxCalls == 2
\* largest number of distinct links the out-of-order driver and the fair
\* driver register
MaxApiLinks == 2

(* ---------------------------- values ----------------------------------- *)
\* float('inf'): the cost of an entry nobody has relaxed yet
Inf == -1
\* Python's None as a next hop
None == "None"

NodeNames == <<"A", "B", "C", "D", "E", "F", "G", "H">>

\* the module-level topology of the script, in the order of its add_link calls
RefLinks ==
  << <<"A", "B", 2>>, <<"A", "D", 6>>, <<"A", "E", 3>>, <<"B", "E", 1>>,
     <<"B", "C", 2>>, <<"C", "E", 3>>, <<"C", "H", 1>>, <<"D", "E", 2>>,
     <<"E", "F", 3>>, <<"E", "H", 4>>, <<"F", "G", 2>>, <<"G", "H", 2>> >>

NodeSet == {nodes[i] : i \in 1..Len(nodes)}

N == Len(nodes)

(* ------------------------ float arithmetic ----------------------------- *)
\* mutant: the sentinel is added like any other number
PlusWrapped(a, b) == a + b

\* cost + current_cost (line 58): anything plus inf is inf
Plus(a, b) == IF a = Inf \/ b = Inf THEN Inf ELSE a + b

\* mutant: <= in place of <
LessOrEqual(a, b) == a # Inf /\ (b = Inf \/ a <= b)

\* mutant: > in place of <
Greater(a, b) == b # Inf /\ (a = Inf \/ b < a)

\* mutant: the sentinel is compared like any other number
LessRaw(a, b) == a < b

\* new_cost < current (line 59): inf is less than nothing, all finite < inf
Less(a, b) == a # Inf /\ (b = Inf \/ a < b)

(* ------------------------------ dicts ---------------------------------- *)
HasKey(d, key) == \E i \in 1..Len(d) : d[i].nbr = key

\* d[key] = cost on an insertion-ordered dict: an existing key keeps its place
SetItem(d, key, cost) ==
  IF HasKey(d, key)
  THEN [i \in 1..Len(d) |-> IF d[i].nbr = key
                            THEN [nbr |-> key, cost |-> cost] ELSE d[i]]
  ELSE Append(d, [nbr |-> key, cost |-> cost])

\* the two assignments of add_link, one after the other
LinkAdded(g, node1, node2, cost) ==
  LET g1 == [g EXCEPT ![node1] = SetItem(@, node2, cost)]
  IN  [g1 EXCEPT ![node2] = SetItem(@, node1, cost)]

\* number of undirected links in the graph (every link sits in two dicts)
NumLinks == LET RECURSIVE Sum(_)
                Sum(i) == IF i = 0 THEN 0 ELSE Len(graph[nodes[i]]) + Sum(i - 1)
            IN  Sum(N) \div 2

(* --------------------------- construction ------------------------------ *)
EmptyGraph(ns) == [n \in {ns[i] : i \in 1..Len(ns)} |-> << >>]

EmptyTables(ns) ==
  [n \in {ns[i] : i \in 1..Len(ns)} |->
     [d \in {ns[i] : i \in 1..Len(ns)} |-> [cost |-> Inf, next_hop |-> None]]]

Constructed(ns) ==
  /\ nodes = ns
  /\ graph = EmptyGraph(ns)
  /\ routing_tables = EmptyTables(ns)
  /\ initialized = FALSE
  /\ updated = FALSE
  /\ pre = EmptyTables(ns)
  /\ writes = << >>
  /\ scanned = 0
  /\ rounds = 0
  /\ converged = FALSE
  /\ post = FALSE
  /\ last_call = [node1 |-> None, node2 |-> None, cost |-> 0]
  /\ calls = << >>
  /\ graph_before = EmptyGraph(ns)
  /\ raised = FALSE
  /\ early = FALSE
  /\ again = FALSE

\* a driver that builds any small network through the API
InitAny ==
  /\ \E n \in 1..MaxNodes : Constructed(SubSeq(NodeNames, 1, n))
  /\ script = 0

\* lines 83-84: the module-level script
InitRef ==
  /\ Constructed(NodeNames)
  /\ script = 1

Init == InitAny \/ InitRef

(* ------------------------------ add_link ------------------------------- *)
\* the driver registers a link before it initializes the tables
AddLink ==
  /\ ~initialized
  /\ script = 0
  /\ \E node1 \in NodeSet, node2 \in NodeSet, cost \in 0..MaxCost :
       /\ node1 # node2
       /\ HasKey(graph[node1], node2) \/ NumLinks < MaxLinks
       /\ graph' = LinkAdded(graph, node1, node2, cost)
  /\ UNCHANGED <<nodes, routing_tables, initialized, updated, pre, writes,
                 scanned, rounds, converged, post, script>>
  /\ UNCHANGED <<link_vars, api_vars>>

\* lines 87-98: the next add_link call of the script
ScriptAddLink ==
  /\ ~initialized
  /\ script \in 1..Len(RefLinks)
  /\ graph' = LinkAdded(graph, RefLinks[script][1], RefLinks[script][2],
                        RefLinks[script][3])
  /\ script' = script + 1
  /\ UNCHANGED <<nodes, routing_tables, initialized, updated, pre, writes,
                 scanned, rounds, converged, post>>
  /\ UNCHANGED <<link_vars, api_vars>>

(* -------------------------- initialize_tables -------------------------- *)
SelfEntry(node) == [cost |-> 0, next_hop |-> node]

\* mutant: the tables are built afresh, as the constructor builds them
InitializedFresh(rt) ==
  [n \in NodeSet |-> [d \in NodeSet |->
     IF d = n THEN SelfEntry(n) ELSE [cost |-> Inf, next_hop |-> None]]]

\* lines 43-44
Initialized(rt) == [n \in NodeSet |-> [rt[n] EXCEPT ![n] = SelfEntry(n)]]

\* called once, by the driver or by simulate() (line 71) after the script's
\* last add_link
InitializeTables ==
  /\ ~initialized
  /\ script \in {0, Len(RefLinks) + 1}
  /\ routing_tables' = Initialized(routing_tables)
  /\ initialized' = TRUE
  /\ pre' = Initialized(routing_tables)
  /\ UNCHANGED <<nodes, graph, updated, writes, scanned, rounds, converged,
                 post, script>>
  /\ UNCHANGED <<link_vars, api_vars>>

(* ---------------------------- update_routing --------------------------- *)
\* mutant: only an entry that is still infinite is ever written
ImprovesUnknownOnly(rt, node, neighbor, cost, dest) ==
  rt[node][dest].cost = Inf /\ Plus(cost, rt[neighbor][dest].cost) # Inf

\* line 59: does the route through the neighbour beat the recorded one
Improves(rt, node, neighbor, cost, dest) ==
  Less(Plus(cost, rt[neighbor][dest].cost), rt[node][dest].cost)

\* mutant: the neighbour's cost is recorded without the link cost
NewEntryNoLinkCost(rt, neighbor, cost, dest) ==
  [cost |-> rt[neighbor][dest].cost, next_hop |-> neighbor]

\* mutant: the destination is recorded as the next hop
NewEntryDestHop(rt, neighbor, cost, dest) ==
  [cost |-> Plus(cost, rt[neighbor][dest].cost), next_hop |-> dest]

\* line 60: the entry written for (node, dest)
NewEntry(rt, neighbor, cost, dest) ==
  [cost |-> Plus(cost, rt[neighbor][dest].cost), next_hop |-> neighbor]

\* mutant: updated = (this triple improved), the earlier updates are forgotten
FlagLast(old, improved) == improved

\* mutant: the flag is never set
FlagStuck(old, improved) == old

\* line 61: the flag after one triple
Flag(old, improved) == old \/ improved

\* The running call: st.tables is self.routing_tables, st.updated the local
\* flag, st.i, st.j, st.k the positions of the three loops; st.writes and
\* st.scanned are the history the call leaves behind.

\* lines 58-61, the loop body on the triple (node, item, nodes[st.k]): the
\* tables are read and written in place
Relaxed(st, node, item) ==
  LET dest == nodes[st.k]
  IN  IF Improves(st.tables, node, item.nbr, item.cost, dest)
      THEN [st EXCEPT
              !.tables[node][dest] =
                 NewEntry(st.tables, item.nbr, item.cost, dest),
              !.updated = Flag(@, TRUE),
              !.writes = Append(@,
                 [node |-> node, dest |-> dest, old |-> st.tables[node][dest],
                  new |-> NewEntry(st.tables, item.nbr, item.cost, dest)]),
              !.scanned = @ + 1,
              !.k = @ + 1]
      ELSE [st EXCEPT !.updated = Flag(@, FALSE), !.scanned = @ + 1,
                      !.k = @ + 1]

\* F(x) with x evaluated once, however often F uses it: the state of a loop
\* is computed once per iteration
Once(x, F(_)) == CHOOSE y \in {F(v) : v \in {x}} : TRUE

\* line 57: the destinations of the neighbour's table from the st.k-th on, in
\* the order of the constructor's node list
RECURSIVE ForDest(_, _, _)
ForDest(st, node, item) ==
  Once(st, LAMBDA v : IF v.k > N THEN v
                      ELSE ForDest(Relaxed(v, node, item), node, item))

\* line 56: the items of graph[node] from the st.j-th on, in insertion order
RECURSIVE ForNeighbor(_, _)
ForNeighbor(st, node) ==
  Once(st, LAMBDA v :
    IF v.j > Len(graph[node]) THEN v
    ELSE ForNeighbor(
           [ForDest([v EXCEPT !.k = 1], node, graph[node][v.j])
              EXCEPT !.j = @ + 1],
           node))

\* line 55: the nodes from the st.i-th on
RECURSIVE ForNode(_)
ForNode(st) ==
  Once(st, LAMBDA v :
    IF v.i > N THEN v
    ELSE ForNode([ForNeighbor([v EXCEPT !.j = 1], nodes[v.i])
                    EXCEPT !.i = @ + 1]))

\* lines 54-62: one call
Round(rt) ==
  ForNode([tables |-> rt, updated |-> FALSE, i |-> 1, j |-> 1, k |-> 1,
           writes |-> << >>, scanned |-> 0])

\* the driver calls update_routing() as long as it likes; simulate() (lines
\* 73-79) stops calling at the first False
UpdateRouting ==
  /\ initialized
  /\ converged \/ rounds <= N
  /\ script = 0 \/ ~converged
  /\ \E r \in {Round(routing_tables)} :
         /\ routing_tables' = r.tables
         /\ updated' = r.updated
         /\ writes' = r.writes
         /\ scanned' = r.scanned
         /\ converged' = (converged \/ ~r.updated)
  /\ pre' = routing_tables
  /\ rounds' = IF converged THEN rounds ELSE rounds + 1
  /\ post' = converged
  /\ UNCHANGED <<nodes, graph, initialized, script>>
  /\ UNCHANGED <<link_vars, api_vars>>

(* --------------------------- specification ----------------------------- *)
Next == AddLink \/ ScriptAddLink \/ InitializeTables \/ UpdateRouting

Spec == Init /\ [][Next]_vars

\* the same drivers on fewer links
LiveNext ==
  \/ NumLinks < MaxApiLinks /\ AddLink
  \/ ScriptAddLink
  \/ InitializeTables
  \/ UpdateRouting

\* simulate() (lines 73-79) calls update_routing() again after every True: a
\* call that can be made is made
LiveSpec == Init /\ [][LiveNext]_vars /\ WF_vars(UpdateRouting)

(* --------------------- add_link with any arguments --------------------- *)
\* a node name that is in no node list
Stranger == "Z"

\* the key views of a dict
Items(d) == {d[i] : i \in 1..Len(d)}

\* mutant: the second assignment (line 35) is missing
AddLinkOneWay(g, node1, node2, cost) ==
  IF node1 \notin DOMAIN g
  THEN [graph |-> g, raised |-> TRUE]
  ELSE [graph |-> [g EXCEPT ![node1] = SetItem(@, node2, cost)],
        raised |-> node2 \notin DOMAIN g]

\* lines 34-35 for any two names: self.graph[x] raises KeyError when x is not
\* a node, and an assignment made before the exception stays made
AddLinkOutcome(g, node1, node2, cost) ==
  IF node1 \notin DOMAIN g
  THEN [graph |-> g, raised |-> TRUE]
  ELSE LET g1 == [g EXCEPT ![node1] = SetItem(@, node2, cost)]
       IN  IF node2 \notin DOMAIN g
           THEN [graph |-> g1, raised |-> TRUE]
           ELSE [graph |-> [g1 EXCEPT ![node2] = SetItem(@, node1, cost)],
                 raised |-> FALSE]

\* a driver that registers and overwrites links between nodes of the list, in
\* either argument order, and records its calls
AddLinkCall ==
  /\ Len(calls) < MaxCalls
  /\ \E node1 \in NodeSet, node2 \in NodeSet, cost \in 0..MaxCost :
       /\ node1 # node2
       /\ graph' = AddLinkOutcome(graph, node1, node2, cost).graph
       /\ calls' = Append(calls,
                          [node1 |-> node1, node2 |-> node2, cost |-> cost])
  /\ UNCHANGED <<nodes, routing_tables, initialized, updated, pre, writes,
                 scanned, rounds, converged, post, script, last_call,
                 graph_before, raised, api_vars>>

LinkSpec == InitAny /\ [][AddLinkCall]_vars

\* the driver names a node that is not in the list, as first argument, as
\* second or as both
AddLinkStranger ==
  /\ \E node1 \in NodeSet \cup {Stranger}, node2 \in NodeSet \cup {Stranger},
        cost \in 0..MaxCost :
       /\ Stranger \in {node1, node2}
       /\ \E r \in {AddLinkOutcome(graph, node1, node2, cost)} :
            graph' = r.graph /\ raised' = r.raised
       /\ last_call' = [node1 |-> node1, node2 |-> node2, cost |-> cost]
       /\ graph_before' = graph
  /\ UNCHANGED <<nodes, routing_tables, initialized, updated, pre, writes,
                 scanned, rounds, converged, post, script, calls, api_vars>>

\* links are registered, then a call names a stranger; nothing catches the
\* KeyError, so the run ends there
StrangerNext == ~raised /\ (AddLink \/ AddLinkStranger)

StrangerSpec == InitAny /\ [][StrangerNext]_vars

(* ------------------------ calls out of order -------------------------- *)
\* update_routing() called before initialize_tables(): the same scan, on tables
\* that initialize_tables() has not touched yet
UpdateRoutingEarly ==
  /\ ~initialized
  /\ script = 0
  /\ \E r \in {Round(routing_tables)} :
         /\ routing_tables' = r.tables
         /\ updated' = r.updated
         /\ writes' = r.writes
         /\ scanned' = r.scanned
  /\ pre' = routing_tables
  /\ early' = TRUE
  /\ UNCHANGED <<nodes, graph, initialized, rounds, converged, post, script,
                 again, link_vars>>

\* lines 43-44 once more: initialize_tables() called again after a round
InitializeAgain ==
  /\ initialized
  /\ script = 0
  /\ rounds >= 1
  /\ routing_tables' = Initialized(routing_tables)
  /\ again' = TRUE
  /\ UNCHANGED <<nodes, graph, initialized, updated, pre, writes, scanned,
                 rounds, converged, post, script, early, link_vars>>

\* a driver that calls the three methods in any order once the links are
\* registered
ApiNext ==
  \/ NumLinks < MaxApiLinks /\ AddLink
  \/ UpdateRoutingEarly
  \/ InitializeTables
  \/ UpdateRouting
  \/ InitializeAgain

ApiSpec == InitAny /\ [][ApiNext]_vars

(* ===================== yardsticks of the properties ==================== *)
\* These read the link graph only; they share nothing with update_routing.
Neighbours(n) == {e.nbr : e \in Items(graph[n])}

LinkCost(a, b) == (CHOOSE e \in Items(graph[a]) : e.nbr = b).cost

\* the nodes a walk from s can reach
RECURSIVE Closure(_)
Closure(S) ==
  LET T == S \cup UNION {Neighbours(n) : n \in S}
  IN  IF T = S THEN S ELSE Closure(T)

ReachSet(s) == Closure({s})

Connected == \A s \in NodeSet : ReachSet(s) = NodeSet

\* the costs of the walks from s to d of at most k links
RECURSIVE WalkCosts(_, _, _)
WalkCosts(k, s, d) ==
  (IF s = d THEN {0} ELSE {}) \cup
  (IF k = 0 THEN {}
   ELSE UNION {{e.cost + c : c \in WalkCosts(k - 1, e.nbr, d)} :
                 e \in Items(graph[s])})

\* the shortest-path distance (costs are non-negative, so a shortest walk is a
\* path of at most N - 1 links), Inf when there is no path
Dist(s, d) ==
  LET W == WalkCosts(N - 1, s, d)
  IN  IF W = {} THEN Inf ELSE CHOOSE c \in W : \A x \in W : c <= x

\* a <= b on costs, infinity on top
CostLeq(a, b) == b = Inf \/ (a # Inf /\ a <= b)

Cost(s, d) == routing_tables[s][d].cost

Hop(s, d) == routing_tables[s][d].next_hop

\* the assignments of line 60 made by the last call
Writes == {writes[i] : i \in 1..Len(writes)}

\* the tables after the first k assignments of the last call: with k ranging
\* over 0..Len(writes) these are all the tables the call went through
RECURSIVE TablesAfter(_)
TablesAfter(k) ==
  IF k = 0 THEN pre
  ELSE [TablesAfter(k - 1) EXCEPT ![writes[k].node][writes[k].dest] = writes[k].new]

\* the tables the last call went through, in order: the k-th is the tables
\* after the first k - 1 assignments (each is built from the one before)
RECURSIVE TraceUpTo(_)
TraceUpTo(k) ==
  IF k = 0 THEN <<pre>>
  ELSE CHOOSE q \in
         {Append(h, [h[k] EXCEPT ![writes[k].node][writes[k].dest] =
                                   writes[k].new]) : h \in {TraceUpTo(k - 1)}} :
         TRUE

Trace == TraceUpTo(Len(writes))

\* the tables at the start of the last call, in the middle of it and at its end
Visited ==
  UNION {{tr[i] : i \in 1..Len(tr)} : tr \in {Trace}} \cup {routing_tables}

\* the least of a set of costs, infinity for the empty set
Least(C) ==
  IF C \ {Inf} = {} THEN Inf
  ELSE CHOOSE c \in C \ {Inf} : \A x \in C \ {Inf} : c <= x

\* the costs right after initialize_tables()
SnapshotStart == [s \in NodeSet |-> [d \in NodeSet |-> IF s = d THEN 0 ELSE Inf]]

\* one round of the synchronous engine on costs: every node reads the
\* neighbours' costs of the start of the round (f = f: the round's result is
\* a table of values, computed entry by entry once)
SnapshotRound(c) ==
  CHOOSE f \in
    {[s \in NodeSet |-> [d \in NodeSet |->
        Least({c[s][d]} \cup
              {IF c[e.nbr][d] = Inf THEN Inf ELSE e.cost + c[e.nbr][d] :
                 e \in Items(graph[s])})]]} : f = f

\* the costs of the synchronous engine after 0, 1, ..., k rounds, in order
\* (each round reads the costs the round before left)
RECURSIVE SnapshotTrace(_)
SnapshotTrace(k) ==
  IF k = 0 THEN <<SnapshotStart>>
  ELSE CHOOSE q \in
         {Append(h, SnapshotRound(h[k])) : h \in {SnapshotTrace(k - 1)}} : TRUE

\* the costs of the synchronous engine after k rounds
SnapshotAfter(k) == SnapshotTrace(k)[k + 1]

\* the script has made all its add_link calls and simulate() has left its loop
ScriptDone == script = Len(RefLinks) + 1 /\ converged

(* ============================== claims ================================= *)

\* C1: at convergence (the first update_routing() that returns False after
\* initialize_tables()), for every pair (S, D) with D reachable from S the
\* recorded cost is the shortest-path distance from S to D in the link graph.
C1_ShortestPathCost ==
  converged =>
    \A s \in NodeSet : \A d \in ReachSet(s) : Cost(s, d) = Dist(s, d)

\* C1 witness: converged on a graph where a two-link route beats the direct
\* link.
C1_Witness ==
  /\ converged /\ script = 0
  /\ \E s \in NodeSet : \E d \in Neighbours(s) : Cost(s, d) < LinkCost(s, d)

\* C2 as claimed: on a connected graph of N nodes one of the first N - 1 calls
\* of update_routing() returns False (stated for N >= 2, where N - 1 calls
\* exist).
C2_WithinNMinus1 ==
  (initialized /\ N >= 2 /\ rounds >= N - 1 /\ ~converged) => ~Connected

\* C2 amended: on a connected graph of N nodes one of the first N calls of
\* update_routing() returns False.
C2_WithinN ==
  (initialized /\ rounds >= N /\ ~converged) => ~Connected

\* C2 witness: a connected graph of at least three nodes whose N-th call is
\* the first to return False.
C2_Witness ==
  /\ N >= 3 /\ Connected
  /\ converged /\ rounds = N

\* C3: at convergence, for S # D with D reachable from S, the recorded next
\* hop H is a neighbour of S with graph[S][H] + cost(H, D) = cost(S, D).
C3_NextHopOnShortestPath ==
  converged =>
    \A s \in NodeSet : \A d \in ReachSet(s) \ {s} :
      /\ Hop(s, d) \in Neighbours(s)
      /\ Cost(s, d) # Inf
      /\ Cost(Hop(s, d), d) # Inf
      /\ LinkCost(s, Hop(s, d)) + Cost(Hop(s, d), d) = Cost(s, d)

\* C3 witness: converged with a route whose next hop is not the destination.
C3_Witness ==
  /\ converged /\ script = 0
  /\ \E s \in NodeSet : \E d \in ReachSet(s) \ {s} : Hop(s, d) # d

\* C4: after initialize_tables(), routing_tables[X][X] = (0, X) for every node
\* X in every state, the states in the middle of a round included.
C4_SelfEntryStable ==
  initialized =>
    \A t \in Visited : \A x \in NodeSet :
      t[x][x] = [cost |-> 0, next_hop |-> x]

\* C4 witness: a later round has run on a graph with a zero-cost link, where
\* the round trip X -> M -> X costs exactly 0.
C4_Witness ==
  /\ rounds >= 2 /\ scanned > 0
  /\ \E x \in NodeSet : \E m \in Neighbours(x) :
       LinkCost(x, m) = 0 /\ Cost(m, x) = 0

\* C5: no execution of the loop body of update_routing() raises the cost of
\* an entry, so the cost of every (source, destination) after round k + 1 is
\* <= its cost after round k.
C5_CostNeverIncreases ==
  /\ \A w \in Writes : CostLeq(w.new.cost, w.old.cost)
  /\ \A s \in NodeSet : \A d \in NodeSet : CostLeq(Cost(s, d), pre[s][d].cost)

\* C5 witness: a round after the first has lowered a cost that was already
\* finite.
C5_Witness ==
  /\ rounds >= 2
  /\ \E s \in NodeSet : \E d \in NodeSet :
       pre[s][d].cost # Inf /\ Cost(s, d) < pre[s][d].cost

\* C6: once update_routing() has returned False, every further call returns
\* False and leaves every entry (cost and next hop) as it was.
C6_FixedPointIdempotent ==
  post => (~updated /\ routing_tables = pre /\ writes = << >>)

\* C6 witness: a call made after convergence has returned, on a graph with
\* three links.
C6_Witness ==
  post /\ NumLinks = 3

\* C7: update_routing() returns True iff some entry differs between the state
\* before the call and the state after it, and it returns only after the body
\* ran for every (node, neighbour, destination) triple.
C7_ReturnsChanged ==
  rounds >= 1 =>
    /\ updated <=> (routing_tables # pre)
    /\ scanned = 2 * NumLinks * N

\* C7 witness: a call has returned True although the triples of the last node,
\* which has neighbours, changed nothing.
C7_Witness ==
  /\ rounds >= 1 /\ updated
  /\ Len(graph[nodes[N]]) > 0
  /\ routing_tables[nodes[N]] = pre[nodes[N]]

\* C8: for S and D in different connected components routing_tables[S][D]
\* stays (inf, None) in every state from initialize_tables() on.
C8_UnreachableStaysInfinite ==
  initialized =>
    \A s \in NodeSet : \A d \in NodeSet \ ReachSet(s) : \A t \in Visited :
      t[s][d] = [cost |-> Inf, next_hop |-> None]

\* C8 witness: converged on a disconnected graph that has a link of cost 1.
C8_Witness ==
  /\ converged /\ ~Connected
  /\ \E s \in NodeSet : \E d \in Neighbours(s) : LinkCost(s, d) = 1

\* C9 as claimed: for the script's 8-node topology routing_tables[A][H].cost
\* is 6 at convergence.
C9_CostAHIs6 ==
  ScriptDone => Cost("A", "H") = 6

\* C9 amended: for the script's 8-node topology routing_tables[A][H].cost is
\* 5 at convergence, the shortest-path distance (A-B-C-H: 2 + 2 + 1).
C9_CostAHIs5 ==
  ScriptDone => (Cost("A", "H") = 5 /\ Dist("A", "H") = 5)

\* C9 witness: simulate() has left its loop on the script's topology.
C9_Witness ==
  ScriptDone /\ NumLinks = Len(RefLinks)

\* the topology of C10: nodes [A, B, C], links A-B and B-C of cost 1, no A-C
LineABC ==
  /\ nodes = <<"A", "B", "C">>
  /\ Items(graph["A"]) = {[nbr |-> "B", cost |-> 1]}
  /\ Items(graph["C"]) = {[nbr |-> "B", cost |-> 1]}

\* C10: on the line A -1- B -1- C, at convergence routing_tables[A][C] = (2, B),
\* routing_tables[C][A] = (2, B) and routing_tables[A][B] = (1, B).
C10_LineScenario ==
  (converged /\ LineABC) =>
    /\ routing_tables["A"]["C"] = [cost |-> 2, next_hop |-> "B"]
    /\ routing_tables["C"]["A"] = [cost |-> 2, next_hop |-> "B"]
    /\ routing_tables["A"]["B"] = [cost |-> 1, next_hop |-> "B"]

\* C10 witness: convergence on the line A -1- B -1- C.
C10_Witness ==
  converged /\ LineABC

\* the calls made on the unordered pair {a, b}, as positions in the history
CallsOn(a, b) ==
  {i \in 1..Len(calls) : {calls[i].node1, calls[i].node2} = {a, b}}

\* the most recent of them
LastOn(a, b) == calls[CHOOSE i \in CallsOn(a, b) : \A j \in CallsOn(a, b) : j <= i]

\* C11: after any sequence of add_link calls, for member nodes A and B,
\* graph[A][B] is defined iff graph[B][A] is, which is iff some call was made
\* on {A, B}; the two are equal, and both are the cost of the most recent
\* add_link call on {A, B} in either argument order; no dict holds a key
\* twice.
C11_SymmetricLastWriteWins ==
  \A a \in NodeSet :
    /\ Cardinality({e.nbr : e \in Items(graph[a])}) = Len(graph[a])
    /\ \A b \in NodeSet :
         /\ HasKey(graph[a], b) <=> HasKey(graph[b], a)
         /\ HasKey(graph[a], b) <=> CallsOn(a, b) # {}
         /\ HasKey(graph[a], b) =>
              /\ LinkCost(a, b) = LinkCost(b, a)
              /\ LinkCost(a, b) = LastOn(a, b).cost

\* C11 witness: add_link(A, B, 0), then add_link(B, A, 1): the link is
\* overwritten with the arguments swapped, in a network of three nodes.
C11_Witness ==
  /\ N = 3
  /\ calls = << [node1 |-> "A", node2 |-> "B", cost |-> 0],
                [node1 |-> "B", node2 |-> "A", cost |-> 1] >>

\* C12 as claimed: an add_link call that names a node outside the node set
\* raises an error and leaves the topology and the routing tables as they
\* were, whichever argument is the unknown one.
C12_UnknownNodeRejected ==
  (last_call.node1 # None /\
     (last_call.node1 \notin NodeSet \/ last_call.node2 \notin NodeSet)) =>
    /\ raised
    /\ graph = graph_before
    /\ routing_tables = EmptyTables(nodes)

\* C13: after initialize_tables(), repeated update_routing() calls eventually
\* return False: the loop of simulate() terminates.
C13_Terminates == initialized ~> converged

\* C13 witness: on two links the third call was the first to return False.
C13_Witness ==
  /\ converged /\ ~post
  /\ rounds = 3 /\ NumLinks = 2

\* C14: every assignment of update_routing() writes the candidate
\* graph[N][M] + routing_tables[M][D].cost, read when the triple is visited,
\* and only when it is strictly less than the cost it replaces; so an entry
\* whose cost is the same before and after a round keeps its next hop.
C14_StrictLessOnly ==
  [](/\ \E tr \in {Trace} : \A i \in 1..Len(writes) :
          \E w \in {writes[i]} : \E t \in {tr[i]} :
            /\ w.old = t[w.node][w.dest]
            /\ w.new.next_hop \in Neighbours(w.node)
            /\ t[w.new.next_hop][w.dest].cost # Inf
            /\ w.new.cost = LinkCost(w.node, w.new.next_hop)
                              + t[w.new.next_hop][w.dest].cost
            /\ w.old.cost = Inf \/ w.new.cost < w.old.cost
     /\ \A s \in NodeSet : \A d \in NodeSet :
          Cost(s, d) = pre[s][d].cost => Hop(s, d) = pre[s][d].next_hop)

\* C14 witness: a round has returned False although a neighbour other than
\* the recorded next hop offers a route of exactly the recorded cost.
C14_Witness ==
  /\ converged /\ script = 0
  /\ \E s \in NodeSet : \E d \in NodeSet \ {s} :
       \E m \in Neighbours(s) \ {Hop(s, d)} :
         /\ Cost(m, d) # Inf
         /\ LinkCost(s, m) + Cost(m, d) = Cost(s, d)

\* C15: started from the same initialized state, after every round k the
\* in-place cost of every (S, D) is <= the cost of the synchronous (snapshot)
\* engine after k rounds and >= the shortest-path distance; once the in-place
\* engine has converged the snapshot engine reaches the same costs in the
\* rounds that follow, and keeps them.  The snapshot engine's costs after
\* N - 1 rounds are the distances: they are compared with Dist in the state
\* initialize_tables() leaves, and the graph does not change afterwards.
C15_InPlaceAccelerates ==
  /\ [][initialized => graph' = graph]_vars
  /\ [](initialized =>
         \E sn \in {SnapshotTrace(N + 1)} :
           /\ rounds = 0 =>
                \A s \in NodeSet : \A d \in NodeSet : sn[N][s][d] = Dist(s, d)
           /\ sn[N + 1] = sn[N]
           /\ \A s \in NodeSet : \A d \in NodeSet :
                /\ CostLeq(Cost(s, d), sn[rounds + 1][s][d])
                /\ CostLeq(sn[N][s][d], Cost(s, d))
           /\ converged =>
                /\ routing_tables = pre
                /\ \A s \in NodeSet : \A d \in NodeSet :
                     /\ Cost(s, d) = sn[N][s][d]
                     /\ \A k \in rounds..N : CostLeq(Cost(s, d), sn[k + 1][s][d]))

\* C15 witness: after the first round the in-place engine knows a route that
\* the snapshot engine has not found yet.
C15_Witness ==
  /\ rounds = 1 /\ ~converged
  /\ \E s \in NodeSet : \E d \in NodeSet :
       Cost(s, d) # Inf /\ SnapshotAfter(1)[s][d] = Inf

\* what one call of initialize_tables() may change
InitializeFrame ==
  /\ graph' = graph
  /\ \A x \in NodeSet : \A y \in NodeSet :
       routing_tables'[x][y] =
         IF x = y THEN [cost |-> 0, next_hop |-> x] ELSE routing_tables[x][y]
  /\ ~initialized =>
       \A x \in NodeSet : \A y \in NodeSet \ {x} :
         routing_tables'[x][y] = [cost |-> Inf, next_hop |-> None]

C17_NoneIffInfinite ==
  [](\E tr \in {Trace} :
       /\ \A t \in {tr[i] : i \in 1..Len(tr)} \cup {routing_tables} :
            \A s \in NodeSet : \A d \in NodeSet :
              (t[s][d].next_hop = None) <=> (t[s][d].cost = Inf)
       /\ \A i \in 1..Len(writes) :
            /\ writes[i].new.cost # Inf
            /\ writes[i].new.next_hop # None
            /\ tr[i][writes[i].new.next_hop][writes[i].dest].cost # Inf)

\* C17 witness: the first round on a connected graph has returned and an entry
\* is still infinite: its candidates were infinite when they were computed.
C17_Witness ==
  /\ rounds = 1 /\ Connected
  /\ \E s \in NodeSet : \E d \in NodeSet : Cost(s, d) = Inf

\* C18: all links are registered before the first round (the graph does not
\* change once initialize_tables() has run), and in every state, the states in
\* the middle of a round included, the next hop of an entry (S, D) with S # D
\* and a finite cost is a key of graph[S].
C18_NextHopIsNeighbour ==
  /\ [][initialized => graph' = graph]_vars
  /\ [](\A t \in Visited : \A s \in NodeSet : \A d \in NodeSet \ {s} :
          t[s][d].cost # Inf => HasKey(graph[s], t[s][d].next_hop))

\* C18 witness: a round that has not converged has written a route whose next
\* hop is not its destination.
C18_Witness ==
  /\ rounds >= 1 /\ ~converged
  /\ \E w \in Writes : w.new.next_hop # w.dest /\ w.node # w.dest

\* C19: after initialize_tables(), in every state, the states in the middle
\* of a round included, a finite cost recorded for (S, D) is >= the
\* shortest-path distance from S to D.  The distances are computed once per
\* state for all pairs (N - 1 synchronous rounds on costs) and compared with
\* Dist in the state initialize_tables() leaves; the graph does not change
\* afterwards.
C19_NeverUnderestimates ==
  /\ [][initialized => graph' = graph]_vars
  /\ [](initialized =>
         \E dist \in {SnapshotAfter(N - 1)} :
           /\ rounds = 0 =>
                \A s \in NodeSet : \A d \in NodeSet : dist[s][d] = Dist(s, d)
           /\ \A t \in Visited : \A s \in NodeSet : \A d \in NodeSet :
                t[s][d].cost # Inf =>
                  (dist[s][d] # Inf /\ dist[s][d] <= t[s][d].cost))

\* C19 witness: a round has replaced a finite cost that was above the
\* distance.
C19_Witness ==
  /\ rounds >= 1
  /\ \E w \in Writes :
       w.old.cost # Inf /\ Dist(w.node, w.dest) < w.old.cost

\* C20: update_routing() called before initialize_tables() returns False and
\* leaves every entry at (inf, None), so the tables it leaves are not
\* shortest-path tables (the cost of a node to itself is not 0); and after a
\* later initialize_tables() the first update_routing() on a topology with at
\* least one link returns True.
C20_EarlyUpdateReturnsFalse ==
  /\ (early /\ ~initialized) =>
       /\ ~updated
       /\ writes = << >>
       /\ routing_tables = EmptyTables(nodes)
       /\ \A s \in NodeSet : Cost(s, s) # Dist(s, s)
  /\ (early /\ initialized /\ rounds = 1 /\ NumLinks >= 1) =>
       (updated /\ ~converged)

\* C20 witness: update_routing() has run its loop body on two links before
\* initialize_tables(), and nothing has been called since.
C20_Witness ==
  /\ early /\ ~initialized
  /\ NumLinks = 2 /\ scanned = 2 * NumLinks * N

====
